---- MODULE Spec2Model ----
(***************************************************************************)
(* Model of pkg/controller/dgraph/models/query/pod.go (purser).            *)
(*                                                                         *)
(* The package issues read requests to a Dgraph store and returns what the *)
(* store answers.  The store is modelled by evaluating each query block    *)
(* on a small property graph.  Quantities the code handles as float64 are  *)
(* fixed-point integers here: seconds are counted in ticks, prices in      *)
(* price ticks, and a quotient x / 3600 is kept as the pair                *)
(* [num |-> x, den |-> 3600].                                              *)
(***************************************************************************)
EXTENDS Integers, Sequences, FiniteSets, TLC

VARIABLES
    All,         \* the package constant All every name is compared against
    graph,       \* the store's contents: node id -> predicates of the node
    now,         \* wall clock when an operation builds its query
    monthStart,  \* utils.GetCurrentMonthStartTime()
    storeCalls,  \* requests the store has received so far
    last         \* the last call: operation, arguments, requests, result

vars == <<All, graph, now, monthStart, storeCalls, last>>

----------------------------------------------------------------------------
(* Bounds of the model *)

\* store requests after which no further operation is started
MaxCalls == 3
\* longest pod list handed to removeDuplicates
MaxLen == 5
\* ticks between two values the 6 decimals of "%f" can tell apart
SecondsLiteralStep == 3
\* price ticks between two values the 11 decimals of FormatFloat can tell apart
PriceLiteralStep == 3
\* the store evaluates since() at most this many ticks after the query was built
MaxSkew == 1

----------------------------------------------------------------------------
(* Values *)

SecondsPerHour == 3600

\* models.DefaultCPUCostInFloat64, models.DefaultMemCostInFloat64 and
\* models.DefaultStorageCostPerGBPerHour, in price ticks
DefaultCPUCostInFloat64 == 24
DefaultMemCostInFloat64 == 9
DefaultStorageCostPerGBPerHour == 1

\* target names a caller may pass
Names == {"", "all", "web", "db"}

\* node ids (uids); the store returns nodes in ascending uid order
Pods == {1, 2, 3}
Containers == {4}
Services == {5}
Labels == {6, 7}
Nodes == Pods \cup Containers \cup Services \cup Labels

\* an absent predicate is the empty set, a present one a singleton
None == {}
Some(v) == {v}
Get(opt) == CHOOSE v \in opt : TRUE

StoreError == "store error"
NoError == "nil"

Min(a, b) == IF a < b THEN a ELSE b
Max(a, b) == IF a > b THEN a ELSE b

RECURSIVE SortedSeq(_)
\* the elements of a set of uids in ascending order
SortedSeq(S) ==
    IF S = {} THEN <<>>
    ELSE LET m == CHOOSE x \in S : \A y \in S : x <= y
         IN <<m>> \o SortedSeq(S \ {m})

\* nearest multiple of step, ties to the even multiple (x >= 0)
RoundTo(x, step) ==
    LET q == x \div step
        r == x % step
    IN IF 2 * r < step THEN q * step
       ELSE IF 2 * r > step THEN (q + 1) * step
       ELSE IF q % 2 = 0 THEN q * step ELSE (q + 1) * step

\* fmt.Sprintf("%f", x): x printed with 6 decimals
SprintfF(x) == RoundTo(x, SecondsLiteralStep)

\* strconv.FormatFloat(p, 'f', 11, 64): p printed with 11 decimals
FormatFloat11(p) == RoundTo(p, PriceLiteralStep)

\* utils.GetSecondsSince(t)
GetSecondsSince(t) == now - t

----------------------------------------------------------------------------
(* The store's contents *)

Node(kind, name, pod, label, startTime, endTime, cpuPrice, memoryPrice) ==
    [kind |-> kind, name |-> name, pod |-> pod, label |-> label,
     startTime |-> startTime, endTime |-> endTime,
     cpuPrice |-> cpuPrice, memoryPrice |-> memoryPrice,
     cpuRequest |-> 2, memoryRequest |-> 3, storageRequest |-> 1,
     key |-> "", value |-> ""]

LabelNode(key, value) ==
    [Node("label", key, {}, {}, 0, None, None, None)
        EXCEPT !.key = key, !.value = value]

isPod(n) == graph[n].kind = "pod"
isContainer(n) == graph[n].kind = "container"
isService(n) == graph[n].kind = "service"
isLabel(n) == graph[n].kind = "label"

----------------------------------------------------------------------------
(* Queries and the store's answers *)

\* a query text, by the parts of it that vary
Query(block, filter, name, labelFilter, secondsSinceMonthStart, cpuPrice, memoryPrice) ==
    [block |-> block, filter |-> filter, name |-> name,
     labelFilter |-> labelFilter,
     secondsSinceMonthStart |-> secondsSinceMonthStart,
     cpuPriceChild |-> cpuPrice, memoryPriceChild |-> memoryPrice,
     cpuPrice |-> cpuPrice, memoryPrice |-> memoryPrice]

\* the @filter of a block rooted at func: has(isPod)
Matches(q, n) ==
    CASE q.filter = "none" -> TRUE
      [] q.filter = "has(pod)" -> graph[n].pod # {}
      [] q.filter = "eq(name)" -> graph[n].name = q.name
      [] q.filter = "NOT has(endTime)" -> graph[n].endTime = {}

\* the nodes of the root block, in the order the store lists them
Roots(q) == SortedSeq({n \in Nodes : isPod(n) /\ Matches(q, n)})

\* outbound: pod { name }
Outbound(n) == graph[n].pod

\* inbound: ~pod @filter(has(isPod)) { name }
Inbound(n) == {m \in Nodes : n \in graph[m].pod /\ isPod(m)}

\* the answer to the interactions query
InteractionsAnswer(q) ==
    LET roots == Roots(q)
    IN [i \in 1..Len(roots) |->
            [node |-> roots[i], name |-> graph[roots[i]].name,
             outbound |-> Outbound(roots[i]), inbound |-> Inbound(roots[i])]]

\* children: ~pod @filter(has(isContainer))
Children(n) == {m \in Nodes : n \in graph[m].pod /\ isContainer(m)}

\* the answer to the hierarchy query
HierarchyAnswer(q) ==
    LET roots == Roots(q)
    IN [i \in 1..Len(roots) |->
            [node |-> roots[i], name |-> graph[roots[i]].name,
             children |-> {[node |-> c, name |-> graph[c].name] : c \in Children(roots[i])}]]

\* variant: the seconds since startTime are not clipped to the window
secondsSinceStart_NoClip(stSeconds, secondsSinceMonthStart) == stSeconds

\* math(cond(stSeconds > secondsSinceMonthStart, secondsSinceMonthStart, stSeconds))
secondsSinceStart(stSeconds, secondsSinceMonthStart) ==
    IF stSeconds > secondsSinceMonthStart THEN secondsSinceMonthStart ELSE stSeconds

\* variant: the seconds since endTime are not subtracted
secondsSinceEnd_Ignored(isTerminated, sinceEt) == 0

\* math(cond(isTerminated == 0, 0.0, since(et)))
secondsSinceEnd(isTerminated, sinceEt) ==
    IF isTerminated = 0 THEN 0 ELSE sinceEt

\* math((secondsSinceStart - secondsSinceEnd) / 3600)
durationInHours(sinceStart, sinceEnd) ==
    [num |-> sinceStart - sinceEnd, den |-> SecondsPerHour]

\* math(quantity * durationInHours * price)
Cost(quantity, duration, price) ==
    [num |-> quantity * duration.num * price, den |-> duration.den]

\* the expressions of the metrics query on node n, evaluated at store time t;
\* since(et) is read only when the node has an endTime
NodeMetrics(q, n, t, cpuPrice, memoryPrice) ==
    LET st == graph[n].startTime
        stSeconds == t - st
        isTerminated == Cardinality(graph[n].endTime)
        sinceEt == IF isTerminated = 0 THEN 0 ELSE t - Get(graph[n].endTime)
        duration == durationInHours(
                        secondsSinceStart(stSeconds, q.secondsSinceMonthStart),
                        secondsSinceEnd(isTerminated, sinceEt))
    IN [node |-> n, name |-> graph[n].name,
        cpu |-> graph[n].cpuRequest, memory |-> graph[n].memoryRequest,
        durationInHours |-> duration,
        cpuCost |-> Cost(graph[n].cpuRequest, duration, cpuPrice),
        memoryCost |-> Cost(graph[n].memoryRequest, duration, memoryPrice)]

\* the answer to the metrics query: the pod carries storage as well
MetricsAnswer(q, t) ==
    LET roots == Roots(q)
    IN [i \in 1..Len(roots) |->
            LET self == NodeMetrics(q, roots[i], t, q.cpuPrice, q.memoryPrice)
            IN [self |-> self,
                storage |-> graph[roots[i]].storageRequest,
                storageCost |-> Cost(graph[roots[i]].storageRequest,
                                     self.durationInHours,
                                     DefaultStorageCostPerGBPerHour),
                children |-> {NodeMetrics(q, c, t, q.cpuPriceChild, q.memoryPriceChild) :
                                c \in Children(roots[i])}]]

\* the answer to the price query: a node with neither predicate is left out
PriceAnswer(q) ==
    LET roots == SelectSeq(Roots(q),
                    LAMBDA n : graph[n].cpuPrice # {} \/ graph[n].memoryPrice # {})
    IN [i \in 1..Len(roots) |->
            [cpuPrice |-> graph[roots[i]].cpuPrice,
             memoryPrice |-> graph[roots[i]].memoryPrice]]

\* the answer to the live pods query
LivePodsAnswer(q) ==
    LET roots == Roots(q)
    IN [i \in 1..Len(roots) |->
            [Name |-> graph[roots[i]].name,
             Pods |-> Outbound(roots[i]),
             Cid |-> {m \in Nodes : roots[i] \in graph[m].pod /\ isService(m)}]]

\* the answer to the label query: the pods reached from a matching label
LabelPodsAnswer(q) ==
    LET matching == {l \in Nodes : isLabel(l)
                        /\ <<graph[l].key, graph[l].value>> \in q.labelFilter}
        podUIDs == {p \in Nodes : isPod(p) /\ graph[p].label \cap matching # {}}
        roots == SortedSeq(podUIDs)
    IN [i \in 1..Len(roots) |-> [UID |-> roots[i], Name |-> graph[roots[i]].name]]

\* encoding/json leaves a float64 field the answer lacks at 0
DecodeFloat(opt) == IF opt = {} THEN 0 ELSE Get(opt)

----------------------------------------------------------------------------
(* The operations.  Each yields what the call returns, the error it        *)
(* returns (NoError for an operation with no error result) and the         *)
(* requests it sent to the store, in order.  ok tells whether the store    *)
(* answers a request or fails it.                                          *)

Outcome(result, err, requests, prices) ==
    [result |-> result, err |-> err, requests |-> requests, prices |-> prices]

\* []byte(nil), and the bytes of an answer
RawNil == [isNil |-> TRUE, pods |-> <<>>]
Raw(answer) == [isNil |-> FALSE, pods |-> answer]

\* JSONDataWrapper{} and JSONDataWrapper{Data: parent}
EmptyWrapper == [Data |-> <<>>]
Wrapper(parent) == [Data |-> <<parent>>]

NoFilter == {}
NoPrices == <<>>

\* variant: the two wildcard queries change places
InteractionsQuery_Swapped(name, isOrphan) ==
    IF name = All
    THEN IF isOrphan
         THEN Query("pods", "has(pod)", "", NoFilter, 0, 0, 0)
         ELSE Query("pods", "none", "", NoFilter, 0, 0, 0)
    ELSE Query("pods", "eq(name)", name, NoFilter, 0, 0, 0)

InteractionsQuery(name, isOrphan) ==
    IF name = All
    THEN IF isOrphan
         THEN Query("pods", "none", "", NoFilter, 0, 0, 0)
         ELSE Query("pods", "has(pod)", "", NoFilter, 0, 0, 0)
    ELSE Query("pods", "eq(name)", name, NoFilter, 0, 0, 0)

\* variant: a failed request is sent once more
RetrievePodsInteractions_Retry(name, isOrphan, ok) ==
    LET query == InteractionsQuery(name, isOrphan)
    IN IF ~ok
       THEN Outcome(Raw(InteractionsAnswer(query)), NoError, <<query, query>>, NoPrices)
       ELSE Outcome(Raw(InteractionsAnswer(query)), NoError, <<query>>, NoPrices)

RetrievePodsInteractions(name, isOrphan, ok) ==
    LET query == InteractionsQuery(name, isOrphan)
    IN IF ~ok
       THEN Outcome(RawNil, NoError, <<query>>, NoPrices)
       ELSE Outcome(Raw(InteractionsAnswer(query)), NoError, <<query>>, NoPrices)

\* one request; an empty wrapper when it fails or matches nothing, else the
\* first parent
getJSONDataFromQuery(query, answer, ok) ==
    IF ~ok \/ Len(answer) = 0
    THEN Outcome(EmptyWrapper, NoError, <<query>>, NoPrices)
    ELSE Outcome(Wrapper(answer[1]), NoError, <<query>>, NoPrices)

RetrievePodHierarchy(name, ok) ==
    IF name = All
    THEN Outcome(EmptyWrapper, NoError, <<>>, NoPrices)
    ELSE LET query == Query("parent", "eq(name)", name, NoFilter, 0, 0, 0)
         IN getJSONDataFromQuery(query, HierarchyAnswer(query), ok)

\* variant: the answer of the lookup is not read
getPricePerResourceForPod_DefaultOnly(name, ok) ==
    Outcome(<<>>, NoError, <<Query("pod", "eq(name)", name, NoFilter, 0, 0, 0)>>,
            <<DefaultCPUCostInFloat64, DefaultMemCostInFloat64>>)

getPricePerResourceForPod(name, ok) ==
    LET query == Query("pod", "eq(name)", name, NoFilter, 0, 0, 0)
        Pods_ == PriceAnswer(query)
    IN IF ~ok \/ Len(Pods_) < 1
       THEN Outcome(<<>>, NoError, <<query>>,
                    <<DefaultCPUCostInFloat64, DefaultMemCostInFloat64>>)
       ELSE Outcome(<<>>, NoError, <<query>>,
                    <<DecodeFloat(Pods_[1].cpuPrice), DecodeFloat(Pods_[1].memoryPrice)>>)

\* the metrics query with its three literals inlined
MetricsQuery(name, secondsSinceMonthStart, cpuPrice, memoryPrice) ==
    Query("parent", "eq(name)", name, NoFilter, secondsSinceMonthStart,
          cpuPrice, memoryPrice)

\* variant: the prices are looked up before the name is checked
RetrievePodMetrics_LookupFirst(name, priceOk, ok, skew) ==
    LET secondsSinceMonthStart == SprintfF(GetSecondsSince(monthStart))
        price == getPricePerResourceForPod(name, priceOk)
        cpuPrice == FormatFloat11(price.prices[1])
        memoryPrice == FormatFloat11(price.prices[2])
        query == MetricsQuery(name, secondsSinceMonthStart, cpuPrice, memoryPrice)
        data == getJSONDataFromQuery(query, MetricsAnswer(query, now + skew), ok)
    IN IF name = All
       THEN Outcome(EmptyWrapper, NoError, price.requests, NoPrices)
       ELSE Outcome(data.result, NoError, price.requests \o data.requests, price.prices)

\* skew: ticks between building the query and the store evaluating since()
RetrievePodMetrics(name, priceOk, ok, skew) ==
    IF name = All
    THEN Outcome(EmptyWrapper, NoError, <<>>, NoPrices)
    ELSE LET secondsSinceMonthStart == SprintfF(GetSecondsSince(monthStart))
             price == getPricePerResourceForPod(name, priceOk)
             cpuPrice == FormatFloat11(price.prices[1])
             memoryPrice == FormatFloat11(price.prices[2])
             query == MetricsQuery(name, secondsSinceMonthStart, cpuPrice, memoryPrice)
             data == getJSONDataFromQuery(query, MetricsAnswer(query, now + skew), ok)
         IN Outcome(data.result, NoError, price.requests \o data.requests, price.prices)

RetrievePodsInteractionsForAllLivePodsWithCount(ok) ==
    LET q == Query("pods", "NOT has(endTime)", "", NoFilter, 0, 0, 0)
    IN IF ~ok
       THEN Outcome(<<>>, StoreError, <<q>>, NoPrices)
       ELSE Outcome(LivePodsAnswer(q), NoError, <<q>>, NoPrices)

RECURSIVE Dedupe(_, _, _)
\* the loop of removeDuplicates from position i on, with the UIDs kept so far
Dedupe(pods, i, podsUIDs) ==
    IF i > Len(pods) THEN podsUIDs
    ELSE IF \E j \in 1..Len(podsUIDs) : podsUIDs[j] = pods[i].UID
         THEN Dedupe(pods, i + 1, podsUIDs)
         ELSE Dedupe(pods, i + 1, Append(podsUIDs, pods[i].UID))

RECURSIVE DedupeByName(_, _, _, _)
DedupeByName(pods, i, names, podsUIDs) ==
    IF i > Len(pods) THEN podsUIDs
    ELSE IF pods[i].Name \in names
         THEN DedupeByName(pods, i + 1, names, podsUIDs)
         ELSE DedupeByName(pods, i + 1, names \cup {pods[i].Name},
                           Append(podsUIDs, pods[i].UID))

\* variant: the duplicate check is keyed on the pod's name
removeDuplicates_ByName(pods) == DedupeByName(pods, 1, {}, <<>>)

removeDuplicates(pods) == Dedupe(pods, 1, <<>>)

\* the (key, value) pairs the filter text joins with OR
createFilterFromListOfLabels(labels) ==
    UNION {{<<k, v>> : v \in labels[k]} : k \in DOMAIN labels}

\* variant: a failed request is reported as no match
RetrievePodsUIDsByLabelsFilter_SwallowsError(labels, ok) ==
    LET labelFilter == createFilterFromListOfLabels(labels)
        q == Query("pods", "uid(podUIDs)", "", labelFilter, 0, 0, 0)
    IN IF ~ok
       THEN Outcome(<<>>, NoError, <<q>>, NoPrices)
       ELSE Outcome(removeDuplicates(LabelPodsAnswer(q)), NoError, <<q>>, NoPrices)

RetrievePodsUIDsByLabelsFilter(labels, ok) ==
    LET labelFilter == createFilterFromListOfLabels(labels)
        q == Query("pods", "uid(podUIDs)", "", labelFilter, 0, 0, 0)
    IN IF ~ok
       THEN Outcome(<<>>, StoreError, <<q>>, NoPrices)
       ELSE Outcome(removeDuplicates(LabelPodsAnswer(q)), NoError, <<q>>, NoPrices)

----------------------------------------------------------------------------
(* Calls *)

NoLabels == <<>>

\* the state after a call of op that yielded out; oks[i] tells whether the
\* store answered the i-th request
Call(op, name, isOrphan, labels, pods, out, oks, skew) ==
    /\ storeCalls + Len(out.requests) <= MaxCalls
    /\ storeCalls' = storeCalls + Len(out.requests)
    /\ last' = [op |-> op, name |-> name, isOrphan |-> isOrphan,
                labels |-> labels, pods |-> pods,
                callsBefore |-> storeCalls, storeNow |-> now + skew,
                failed |-> {i \in DOMAIN oks : i <= Len(out.requests) /\ ~oks[i]},
                result |-> out.result, err |-> out.err,
                requests |-> out.requests, prices |-> out.prices]
    /\ UNCHANGED <<All, graph, now, monthStart>>

Call_RetrievePodsInteractions ==
    \E name \in Names, isOrphan \in BOOLEAN, ok \in BOOLEAN :
        Call("RetrievePodsInteractions", name, isOrphan, NoLabels, <<>>,
             RetrievePodsInteractions(name, isOrphan, ok), <<ok>>, 0)

Call_RetrievePodHierarchy ==
    \E name \in Names, ok \in BOOLEAN :
        Call("RetrievePodHierarchy", name, FALSE, NoLabels, <<>>,
             RetrievePodHierarchy(name, ok), <<ok>>, 0)

Call_RetrievePodMetrics ==
    \E name \in Names, priceOk \in BOOLEAN, ok \in BOOLEAN, skew \in 0..MaxSkew :
        Call("RetrievePodMetrics", name, FALSE, NoLabels, <<>>,
             RetrievePodMetrics(name, priceOk, ok, skew), <<priceOk, ok>>, skew)

Call_RetrievePodsInteractionsForAllLivePodsWithCount ==
    \E ok \in BOOLEAN :
        Call("RetrievePodsInteractionsForAllLivePodsWithCount", "", FALSE, NoLabels, <<>>,
             RetrievePodsInteractionsForAllLivePodsWithCount(ok), <<ok>>, 0)

\* label maps a caller may pass
LabelMaps ==
    {[tier |-> {"fe"}], [env |-> {"prod"}], [tier |-> {"be"}],
     [tier |-> {"fe", "be"}, env |-> {"prod"}]}

Call_RetrievePodsUIDsByLabelsFilter ==
    \E labels \in LabelMaps, ok \in BOOLEAN :
        Call("RetrievePodsUIDsByLabelsFilter", "", FALSE, labels, <<>>,
             RetrievePodsUIDsByLabelsFilter(labels, ok), <<ok>>, 0)

\* pod records as the store may list them: a UID may repeat, and so may a name
PodRecords == [UID : Pods, Name : {"web", "db"}]
PodLists == UNION {[1..n -> PodRecords] : n \in 0..MaxLen}

\* removeDuplicates applied to the pod list the state holds
Call_removeDuplicates ==
    /\ last.op = "none"
    /\ Call("removeDuplicates", "", FALSE, NoLabels, last.pods,
            Outcome(removeDuplicates(last.pods), NoError, <<>>, NoPrices), <<>>, 0)

----------------------------------------------------------------------------
(* Initial states *)

NoCall ==
    [op |-> "none", name |-> "", isOrphan |-> FALSE, labels |-> NoLabels,
     pods |-> <<>>, callsBefore |-> 0, storeNow |-> 0, failed |-> {},
     result |-> <<>>, err |-> NoError, requests |-> <<>>, prices |-> NoPrices]

\* the nodes every graph of the model holds: a container of pod 1, a service
\* selecting pods 1 and 2, and two labels
FixedNodes ==
    [n \in Containers \cup Services \cup Labels |->
        CASE n = 4 -> Node("container", "web-c", {1}, {}, 2, None, None, None)
          [] n = 5 -> Node("service", "web-svc", {1, 2}, {}, 1, None, None, None)
          [] n = 6 -> LabelNode("tier", "fe")
          [] n = 7 -> LabelNode("env", "prod")]

\* a graph from its three pods and its container
Graph(pod1, pod2, pod3, container) ==
    [n \in Nodes |->
        CASE n = 1 -> pod1 [] n = 2 -> pod2 [] n = 3 -> pod3
          [] n = 4 -> container
          [] OTHER -> FixedNodes[n]]

\* graphs that differ in names, edges, labels and liveness
TopologyGraphs ==
    {Graph(Node("pod", "web", e1, l1, 2, None, Some(31), None),
           Node("pod", n2, e2, {7}, 4, end2, None, None),
           Node("pod", "all", {}, {}, 5, None, None, None),
           FixedNodes[4]) :
        e1 \in {{}, {2}, {2, 3}}, l1 \in {{6}, {6, 7}},
        n2 \in {"web", "db"}, e2 \in SUBSET {1}, end2 \in {None, Some(8)}}

\* All is declared in another file of the package: it is one fixed string,
\* the empty name or "all"
Init ==
    /\ All \in {"", "all"}
    /\ graph \in TopologyGraphs
    /\ now = 10
    /\ monthStart = 3
    /\ storeCalls = 0
    /\ last = NoCall

Next ==
    \/ Call_RetrievePodsInteractions
    \/ Call_RetrievePodHierarchy
    \/ Call_RetrievePodMetrics
    \/ Call_RetrievePodsInteractionsForAllLivePodsWithCount
    \/ Call_RetrievePodsUIDsByLabelsFilter

Spec == Init /\ [][Next]_vars

\* graphs that differ in the timestamps and the override prices of the pods
\* named "web" and of the container
MetricsGraphs ==
    {Graph(Node("pod", "web", {}, {}, st1, et1, cp1, mp1),
           Node("pod", n2, {}, {}, 2, None, Some(17), None),
           Node("pod", "all", {}, {}, 5, None, None, None),
           Node("container", "web-c", {1}, {}, ct[1], ct[2], None, None)) :
        st1 \in {1, 6, 9}, et1 \in {None, Some(3), Some(8), Some(10)},
        cp1 \in {None, Some(31)}, mp1 \in {None, Some(12)},
        n2 \in {"web", "db"},
        ct \in {<<1, None>>, <<7, Some(9)>>}}

InitMetrics ==
    /\ All \in {"", "all"}
    /\ graph \in MetricsGraphs
    /\ now = 10
    /\ monthStart \in {4, 5}
    /\ storeCalls = MaxCalls - 2
    /\ last = NoCall

NextMetrics == Call_RetrievePodMetrics

SpecMetrics == InitMetrics /\ [][NextMetrics]_vars

InitDedupe ==
    /\ All \in {"", "all"}
    /\ graph \in {Graph(Node("pod", "web", {}, {6}, 2, None, None, None),
                        Node("pod", "web", {}, {6, 7}, 4, None, None, None),
                        Node("pod", "db", {}, {7}, 5, None, None, None),
                        FixedNodes[4])}
    /\ now = 10
    /\ monthStart = 3
    /\ storeCalls = 0
    /\ last \in {[NoCall EXCEPT !.pods = pods] : pods \in PodLists}

NextDedupe == Call_removeDuplicates

SpecDedupe == InitDedupe /\ [][NextDedupe]_vars

----------------------------------------------------------------------------
(* Properties of the operations on the graph (checked under Spec) *)

IsHierarchyOrMetrics == last.op \in {"RetrievePodHierarchy", "RetrievePodMetrics"}

ShortCircuited ==
    /\ last.result = EmptyWrapper
    /\ last.requests = <<>>
    /\ storeCalls = last.callsBefore

\* C1 as stated: RetrievePodHierarchy and RetrievePodMetrics called with the
\* name "" or with the name "all" return an empty JSONDataWrapper and send
\* no request to the store.
C1_EmptyAndAllShortCircuit ==
    (IsHierarchyOrMetrics /\ last.name \in {"", "all"}) => ShortCircuited

\* C1 amended: RetrievePodHierarchy and RetrievePodMetrics called with the
\* name equal to the constant All return an empty JSONDataWrapper and send no
\* request to the store, the price lookup of RetrievePodMetrics included;
\* called with any other name they send their requests.
C1_AllShortCircuits ==
    IsHierarchyOrMetrics =>
        /\ last.name = All => ShortCircuited
        /\ last.name # All => /\ last.requests # <<>>
                              /\ storeCalls > last.callsBefore

C1_Witness ==
    /\ last.op = "RetrievePodMetrics"
    /\ last.name = All
    /\ last.callsBefore > 0
    /\ ShortCircuited

\* the pods an answer of RetrievePodsInteractions lists
ListedPods == {last.result.pods[i].node : i \in 1..Len(last.result.pods)}

InteractionsAnswered ==
    /\ last.op = "RetrievePodsInteractions"
    /\ ~last.result.isNil

\* every listed pod comes with its outbound pods and its inbound pods
OneHopEachWay ==
    \A i \in 1..Len(last.result.pods) :
        LET e == last.result.pods[i]
        IN /\ e.name = graph[e.node].name
           /\ e.outbound = graph[e.node].pod
           /\ e.inbound = {m \in Pods : e.node \in graph[m].pod}

NamedTargetListed ==
    last.name # All => ListedPods = {n \in Pods : graph[n].name = last.name}

\* C7 as stated: with the wildcard target and isOrphan set the answer holds
\* only pods without an outbound edge, with isOrphan unset it is not
\* restricted, a named target selects the pods of that name whatever the
\* flag, and every listed pod is expanded one hop each way.
C7_OrphanFlagRestrictsToOrphans ==
    InteractionsAnswered =>
        /\ (last.name = All /\ last.isOrphan) =>
                ListedPods = {n \in Pods : graph[n].pod = {}}
        /\ (last.name = All /\ ~last.isOrphan) => ListedPods = Pods
        /\ NamedTargetListed
        /\ OneHopEachWay

\* C7 amended: with the wildcard target and isOrphan set the answer holds
\* every pod, orphans included; with isOrphan unset it holds only the pods
\* that have an outbound pod edge; a named target selects the pods of that
\* name whatever the flag; every listed pod is expanded one hop outbound and
\* one hop inbound (inbound pods only).
C7_OrphanFlagIncludesOrphans ==
    InteractionsAnswered =>
        /\ (last.name = All /\ last.isOrphan) => ListedPods = Pods
        /\ (last.name = All /\ ~last.isOrphan) =>
                ListedPods = {n \in Pods : graph[n].pod # {}}
        /\ NamedTargetListed
        /\ OneHopEachWay

C7_Witness ==
    /\ InteractionsAnswered
    /\ last.name = All
    /\ last.isOrphan
    /\ \E n \in ListedPods : graph[n].pod = {}
    /\ \E n \in ListedPods : graph[n].pod # {} /\ Inbound(n) # {}

ReturnsErrors ==
    last.op \in {"RetrievePodsUIDsByLabelsFilter",
                 "RetrievePodsInteractionsForAllLivePodsWithCount"}

\* the policy of the operations that have one request
SingleRequestPolicy ==
    /\ (ReturnsErrors /\ last.failed # {}) =>
            last.err = StoreError /\ last.result = <<>>
    /\ (ReturnsErrors /\ last.failed = {}) => last.err = NoError
    /\ (last.op = "RetrievePodsInteractions" /\ last.failed # {}) =>
            last.result = RawNil /\ last.err = NoError
    /\ (last.op = "RetrievePodHierarchy" /\ last.failed # {}) =>
            last.result = EmptyWrapper /\ last.err = NoError

\* no request is sent a second time
NeverRetries ==
    \A i, j \in 1..Len(last.requests) : last.requests[i] = last.requests[j] => i = j

\* C8 as stated: when the store call fails, the UID and live pod operations
\* return the store's error with a nil result (and a nil error otherwise),
\* RetrievePodsInteractions returns nil with no error, RetrievePodHierarchy
\* and RetrievePodMetrics return an empty result, and nothing is retried.
C8_FailureGivesEmptyOrError ==
    /\ SingleRequestPolicy
    /\ NeverRetries
    /\ (last.op = "RetrievePodMetrics" /\ last.failed # {}) =>
            last.result = EmptyWrapper /\ last.err = NoError

\* C8 amended: as stated, except that RetrievePodMetrics returns an empty
\* result when its metrics query fails; when only its price lookup fails it
\* goes on with the default prices and returns what the metrics query
\* answers.
C8_FailurePolicy ==
    /\ SingleRequestPolicy
    /\ NeverRetries
    /\ (last.op = "RetrievePodMetrics" /\ 2 \in last.failed) =>
            last.result = EmptyWrapper /\ last.err = NoError
    /\ (last.op = "RetrievePodMetrics" /\ 1 \in last.failed) =>
            /\ last.prices = <<DefaultCPUCostInFloat64, DefaultMemCostInFloat64>>
            /\ Len(last.requests) = 2

C8_Witness ==
    /\ last.op = "RetrievePodMetrics"
    /\ last.failed = {1}
    /\ last.result # EmptyWrapper
    /\ last.err = NoError

PublicOps ==
    {"RetrievePodsInteractions", "RetrievePodHierarchy", "RetrievePodMetrics",
     "RetrievePodsInteractionsForAllLivePodsWithCount",
     "RetrievePodsUIDsByLabelsFilter"}

\* the last call was a public operation with a valid target
ValidCall ==
    /\ last.op \in PublicOps
    /\ (last.op \in {"RetrievePodHierarchy", "RetrievePodMetrics"} => last.name # All)

\* every request of the last call is a query block: a read
OnlyReads ==
    \A i \in 1..Len(last.requests) : last.requests[i].block \in {"pods", "parent", "pod"}

\* C9 as stated: every public operation called with a valid target sends
\* exactly one request to the store, so the store-call count after the call
\* is one more than before it, and every request is a read.
C9_OneRequestPerCall ==
    ValidCall =>
        /\ storeCalls = last.callsBefore + 1
        /\ Len(last.requests) = 1
        /\ OnlyReads

\* C9 amended: every public operation called with a valid target sends
\* exactly one request to the store, except RetrievePodMetrics, which sends
\* exactly two (the price lookup, then the metrics query, also when the
\* price lookup failed); every request is a read.
C9_RequestsPerCall ==
    ValidCall =>
        LET n == IF last.op = "RetrievePodMetrics" THEN 2 ELSE 1
        IN /\ storeCalls = last.callsBefore + n
           /\ Len(last.requests) = n
           /\ OnlyReads

C9_Witness ==
    /\ last.op = "RetrievePodMetrics"
    /\ last.name # All
    /\ last.callsBefore > 0
    /\ storeCalls = last.callsBefore + 2
    /\ last.failed = {1}

----------------------------------------------------------------------------
(* Properties of the metrics query (checked under SpecMetrics) *)

MetricsCalled == last.op = "RetrievePodMetrics" /\ last.name # All

MetricsReturned == MetricsCalled /\ last.result # EmptyWrapper

\* the pod of the answer and its child containers
MetricNodes == {last.result.Data[1].self} \cup last.result.Data[1].children

\* the metrics query as sent
MetricsSent == last.requests[2]

\* the seconds since the billing window start, as inlined in the query
WindowSeconds == MetricsSent.secondsSinceMonthStart

\* seconds from the node's startTime to the store's now
Age(m) == last.storeNow - graph[m.node].startTime

IsRunning(m) == graph[m.node].endTime = {}

EndTime(m) == Get(graph[m.node].endTime)

\* C2: a node without endTime gets durationHours =
\* min(now - startTime, secondsSinceBillingWindowStart) / 3600: (now -
\* startTime) / 3600 when the node is younger than the window, and exactly
\* secondsSinceBillingWindowStart / 3600 when it started before the window.
C2_RunningDuration ==
    MetricsReturned =>
        \A m \in MetricNodes :
            IsRunning(m) =>
                /\ m.durationInHours = [num |-> Min(Age(m), WindowSeconds), den |-> 3600]
                /\ Age(m) < WindowSeconds => m.durationInHours.num = Age(m)
                /\ Age(m) > WindowSeconds => m.durationInHours.num = WindowSeconds

C2_Witness ==
    /\ MetricsReturned
    /\ \E m \in MetricNodes : IsRunning(m) /\ Age(m) > WindowSeconds
    /\ \E m \in MetricNodes : IsRunning(m) /\ Age(m) < WindowSeconds

\* the value the expressions give a terminated node
TerminatedDuration(m) ==
    [num |-> Min(Age(m), WindowSeconds) - (last.storeNow - EndTime(m)), den |-> 3600]

\* C3 as stated: a terminated node gets durationHours = (secondsSinceStart -
\* (now - endTime)) / 3600 with secondsSinceStart = min(now - startTime,
\* secondsSinceBillingWindowStart), and for every endTime <= now this is
\* less than the durationHours of a running node with the same startTime.
C3_TerminatedAlwaysLess ==
    MetricsReturned =>
        \A m \in MetricNodes :
            ~IsRunning(m) =>
                /\ m.durationInHours = TerminatedDuration(m)
                /\ EndTime(m) <= last.storeNow =>
                        m.durationInHours.num < Min(Age(m), WindowSeconds)

\* C3 amended: a terminated node gets durationHours = (secondsSinceStart -
\* (now - endTime)) / 3600 with secondsSinceStart = min(now - startTime,
\* secondsSinceBillingWindowStart); for every endTime <= now this is never
\* more than the durationHours of a running node with the same startTime,
\* and it is less exactly when endTime < now.
C3_TerminatedNeverMore ==
    MetricsReturned =>
        \A m \in MetricNodes :
            ~IsRunning(m) =>
                /\ m.durationInHours = TerminatedDuration(m)
                /\ EndTime(m) <= last.storeNow =>
                        m.durationInHours.num <= Min(Age(m), WindowSeconds)
                /\ EndTime(m) < last.storeNow <=>
                        m.durationInHours.num < Min(Age(m), WindowSeconds)

C3_Witness ==
    /\ MetricsReturned
    /\ \E m \in MetricNodes :
            /\ ~IsRunning(m)
            /\ EndTime(m) = last.storeNow
            /\ m.durationInHours.num = Min(Age(m), WindowSeconds)
    /\ \E m \in MetricNodes :
            /\ ~IsRunning(m)
            /\ EndTime(m) < last.storeNow
            /\ m.durationInHours.num > 0

\* the pods of the name the call was given
NamedPods == {n \in Pods : graph[n].name = last.name}

Defaults == <<DefaultCPUCostInFloat64, DefaultMemCostInFloat64>>

\* C4: getPricePerResourceForPod returns the default prices when the lookup
\* fails, when no node matches, and for every resource for which the matching
\* node records no override.
C4_DefaultsWithoutOverride ==
    MetricsCalled =>
        /\ 1 \in last.failed => last.prices = Defaults
        /\ NamedPods = {} => last.prices = Defaults
        /\ (\A n \in NamedPods : graph[n].cpuPrice = {}) =>
                last.prices[1] = DefaultCPUCostInFloat64
        /\ (\A n \in NamedPods : graph[n].memoryPrice = {}) =>
                last.prices[2] = DefaultMemCostInFloat64

\* cpuCost and memoryCost of every node of the answer are the products with
\* the prices p
CostsUse(p) ==
    \A m \in MetricNodes :
        /\ m.cpuCost = [num |-> m.cpu * m.durationInHours.num * p[1], den |-> 3600]
        /\ m.memoryCost = [num |-> m.memory * m.durationInHours.num * p[2], den |-> 3600]

\* C5 as stated: for a node with a recorded override price
\* getPricePerResourceForPod returns that override, never the default, and
\* RetrievePodMetrics inlines the returned price into cpuCost and memoryCost
\* of the pod and of each child container.
C5_OverrideAlwaysReturned ==
    MetricsCalled =>
        /\ \A n \in NamedPods :
                /\ graph[n].cpuPrice # {} => last.prices[1] = Get(graph[n].cpuPrice)
                /\ graph[n].memoryPrice # {} => last.prices[2] = Get(graph[n].memoryPrice)
        /\ MetricsSent.cpuPrice = last.prices[1]
        /\ MetricsSent.memoryPrice = last.prices[2]
        /\ MetricsReturned => CostsUse(last.prices)

\* the pods of the name that record some override price
PricedPods == {n \in NamedPods : graph[n].cpuPrice # {} \/ graph[n].memoryPrice # {}}

FirstPricedPod == CHOOSE n \in PricedPods : \A m \in PricedPods : n <= m

\* l is p printed with 11 decimals
Printed11(l, p) ==
    /\ l % PriceLiteralStep = 0
    /\ 2 * (l - p) <= PriceLiteralStep
    /\ 2 * (p - l) <= PriceLiteralStep

\* C5 amended: when the price lookup succeeds, getPricePerResourceForPod
\* returns, for each resource, the override recorded on the first pod the
\* lookup lists (the first pod of that name with any override), never the
\* default; RetrievePodMetrics inlines the returned price, printed with 11
\* decimals, into cpuCost and memoryCost of the pod and of each child
\* container.
C5_OverrideReturnedAndInlined ==
    MetricsCalled =>
        /\ (1 \notin last.failed /\ PricedPods # {}) =>
                /\ graph[FirstPricedPod].cpuPrice # {} =>
                        last.prices[1] = Get(graph[FirstPricedPod].cpuPrice)
                /\ graph[FirstPricedPod].memoryPrice # {} =>
                        last.prices[2] = Get(graph[FirstPricedPod].memoryPrice)
        /\ Printed11(MetricsSent.cpuPrice, last.prices[1])
        /\ Printed11(MetricsSent.memoryPrice, last.prices[2])
        /\ MetricsReturned => CostsUse(<<MetricsSent.cpuPrice, MetricsSent.memoryPrice>>)

C5_Witness ==
    /\ MetricsReturned
    /\ 1 \notin last.failed
    /\ graph[1].cpuPrice # {}
    /\ last.prices[1] = Get(graph[1].cpuPrice)
    /\ last.prices[1] # DefaultCPUCostInFloat64
    /\ MetricsSent.cpuPrice # last.prices[1]
    /\ last.result.Data[1].children # {}
    /\ \E m \in MetricNodes : m.cpuCost.num > 0

\* the node's timestamps are consistent
Consistent(m) ==
    /\ graph[m.node].startTime <= last.storeNow
    /\ ~IsRunning(m) =>
            graph[m.node].startTime <= EndTime(m) /\ EndTime(m) <= last.storeNow

\* seconds the node's lifetime shares with the billing window
Overlap(m) ==
    LET until == IF IsRunning(m) THEN last.storeNow ELSE EndTime(m)
        from == Max(graph[m.node].startTime, last.storeNow - WindowSeconds)
    IN Max(0, until - from)

\* C10: for a node with consistent timestamps durationHours is never
\* negative and equals the overlap of the node's lifetime with the billing
\* window, divided by 3600; a node that started and ended before the window
\* gets 0.
C10_DurationIsOverlap ==
    MetricsReturned =>
        \A m \in MetricNodes :
            Consistent(m) =>
                /\ m.durationInHours.num >= 0
                /\ m.durationInHours = [num |-> Overlap(m), den |-> 3600]
                /\ m.cpuCost.num >= 0

----------------------------------------------------------------------------
(* Properties of removeDuplicates (checked under SpecDedupe) *)

Deduped == last.op = "removeDuplicates"

\* position of the first record of UID u in the input
FirstIndex(u) ==
    CHOOSE k \in 1..Len(last.pods) :
        /\ last.pods[k].UID = u
        /\ \A j \in 1..(k - 1) : last.pods[j].UID # u

\* C6: removeDuplicates returns every UID of its input once, in the order of
\* first occurrence; it is keyed on the UID alone, so records of one name
\* and different UIDs are all kept.
C6_UniqueInFirstOccurrenceOrder ==
    Deduped =>
        LET out == last.result
        IN /\ \A i, j \in 1..Len(out) : out[i] = out[j] => i = j
           /\ {out[i] : i \in 1..Len(out)} = {last.pods[k].UID : k \in 1..Len(last.pods)}
           /\ \A i, j \in 1..Len(out) : i < j => FirstIndex(out[i]) < FirstIndex(out[j])
           /\ \A k \in 1..Len(last.pods) : \E i \in 1..Len(out) : out[i] = last.pods[k].UID

C6_Witness ==
    /\ Deduped
    /\ Len(last.pods) = 5
    /\ Cardinality({k \in 1..5 : last.pods[k].UID = 2}) = 3
    /\ last.pods[1].UID = 3
    /\ last.pods[5].UID = 1
    /\ last.pods[1].Name = last.pods[5].Name
    /\ last.result = <<3, 2, 1>>

====
